---- MODULE Spec2Model ----
(***************************************************************************)
(* Model of organize_desktop.py: the mover (run_organize / safe_move), the *)
(* history ledger (.organize_history.json) and run_undo.                   *)
(*                                                                         *)
(* A file name is (base, ctrs, ext): "a_1.txt" is base "a", ctrs <<1>>,    *)
(* ext ".txt", so that appending a collision counter to the stem is an     *)
(* injective operation on names, as it is on strings.  A directory is      *)
(* (root, folder, sub): a root, an optional first-level folder and an      *)
(* optional second-level folder.  A path of a file is (dir, name).         *)
(* No file of the model is named like a folder (every name has an          *)
(* extension), so a path never denotes both a file and a directory.        *)
(***************************************************************************)
EXTENDS Integers, Sequences, FiniteSets

VARIABLES
  files,      \* the regular files: path -> content
  dirs,       \* the directories
  now,        \* the clock read by datetime.utcnow()
  nextId,     \* the content of the next file the user creates
  moves,      \* the list `moves` of the most recent run_organize
  log,        \* the lines logged by the most recent invocation
  opt_dest,   \* the --dest option the user runs the organizer with
  opt_by_date, \* the --by-date option the user runs the organizer with
  argv,       \* the command line of the most recent invocation
  exit_code   \* the exit status of the most recent invocation

vars == <<files, dirs, now, nextId, moves, log, opt_dest, opt_by_date, argv, exit_code>>

\* ---------------------------------------------------------------- bounds
MaxRuns == 2
MaxFiles == 1

\* ------------------------------------------------------- names and paths
Name(base, ctrs, ext) == [base |-> base, ctrs |-> ctrs, ext |-> ext]

Dir(root, folder, sub) == [root |-> root, folder |-> folder, sub |-> sub]

File(dir, name) == [dir |-> dir, name |-> name]

NoName == Name("", <<>>, "")

NoDir == Dir("", "", "")

NoPath == File(NoDir, NoName)

METADATA_FILE == Name(".organize_history", <<>>, ".json")

CategoryOrder == <<"Images", "Documents", "Archives", "Code", "Audio", "Video", "Installers">>

CATEGORIES ==
  [c \in {CategoryOrder[i] : i \in 1..Len(CategoryOrder)} |->
     CASE c = "Images"     -> {".png", ".jpg", ".jpeg", ".gif", ".bmp", ".svg", ".webp"}
       [] c = "Documents"  -> {".pdf", ".docx", ".doc", ".txt", ".md", ".pptx", ".xlsx", ".csv"}
       [] c = "Archives"   -> {".zip", ".tar", ".gz", ".rar", ".7z"}
       [] c = "Code"       -> {".py", ".js", ".ts", ".java", ".c", ".cpp", ".go", ".rb", ".rs"}
       [] c = "Audio"      -> {".mp3", ".wav", ".flac", ".m4a"}
       [] c = "Video"      -> {".mp4", ".mkv", ".mov", ".avi"}
       [] c = "Installers" -> {".exe", ".msi", ".dmg", ".deb", ".apk"}]

\* str.lower on the extensions of the model
lower(ext) ==
  CASE ext = ".TXT" -> ".txt"
    [] ext = ".PNG" -> ".png"
    [] OTHER -> ext

\* "" stands for None
which_category(ext) ==
  LET e == lower(ext)
      hits == {i \in 1..Len(CategoryOrder) : e \in CATEGORIES[CategoryOrder[i]]}
  IN IF hits = {} THEN ""
     ELSE CategoryOrder[CHOOSE i \in hits : \A j \in hits : i <= j]

\* Path / segment, for a directory of depth at most one
Join(d, seg) ==
  IF d.folder = "" THEN [d EXCEPT !.folder = seg] ELSE [d EXCEPT !.sub = seg]

\* Path.with_name(f"{stem}_{counter}{suffix}")
with_name(p, counter) ==
  File(p.dir, Name(p.name.base, Append(p.name.ctrs, counter), p.name.ext))

SourceDir == Dir("source", "", "")

AltDir == Dir("alt", "", "")

history_path == File(SourceDir, METADATA_FILE)

\* ------------------------------------------------------------ file system
\* Path.exists() of a file path
exists(fs, p) == p \in DOMAIN fs

\* Path.mkdir(parents=True, exist_ok=True)
mkdir(ds, d) ==
  ds \cup {d, [d EXCEPT !.sub = ""], [d EXCEPT !.sub = "", !.folder = ""]}

\* shutil.move(src, dst) of a regular file onto a file path: rename,
\* replacing whatever file is at dst
shutil_move(fs, src, dst) ==
  [p \in (DOMAIN fs \ {src}) \cup {dst} |-> IF p = dst THEN fs[src] ELSE fs[p]]

\* Path.write_text / creation of a file
write_file(fs, p, v) ==
  [q \in DOMAIN fs \cup {p} |-> IF q = p THEN v ELSE fs[q]]

remove_file(fs, p) == [q \in DOMAIN fs \ {p} |-> fs[q]]

\* ------------------------------------------------------------------ JSON
\* The text of the ledger file: unparseable ("bad"), a JSON list of run
\* records ("list") or one run record, the legacy shape ("dict").
NotJson == [shape |-> "none", runs |-> <<>>]

JsonList(runs) == [shape |-> "list", runs |-> runs]

JsonDict(run) == [shape |-> "dict", runs |-> <<run>>]

BadJson == [shape |-> "bad", runs |-> <<>>]

RunRecord(ts, ms) == [timestamp |-> ts, moves |-> ms]

MoveRecord(from, to, dry) == [from |-> from, to |-> to, dry_run |-> dry]

RECURSIVE SumMoves(_)
SumMoves(runs) ==
  IF runs = <<>> THEN 0 ELSE Len(Head(runs).moves) + SumMoves(Tail(runs))

\* len(json.dumps(o, indent=2)) for paths and timestamps of typical length:
\* "[]" is 2 bytes, a run record about 70 bytes and a move record about 110
JsonBytes(j) ==
  IF j.shape = "bad" THEN 7
  ELSE 2 + 70 * Len(j.runs) + 110 * SumMoves(j.runs)

Month == "2024-03"

DataFile(id, size) == [id |-> id, size |-> size, mtime |-> Month, json |-> NotJson]

JsonFile(j) == [id |-> 0, size |-> JsonBytes(j), mtime |-> Month, json |-> j]

Last(s) == s[Len(s)]

Front(s) == SubSeq(s, 1, Len(s) - 1)

\* ------------------------------------------------------------- log lines
Line(ev, a, b) == [ev |-> ev, a |-> a, b |-> b]

NoLine == Line("", NoPath, NoPath)

\* ------------------------------------------------------------- safe_move
\* the loop `while final.exists()` of safe_move, entered with final = dest
\* and counter = 1
\* safe_move without the collision loop: the candidate path is used as is
free_path_overwrite(fs, dest, final, counter) == dest

RECURSIVE free_path(_, _, _, _)
free_path(fs, dest, final, counter) ==
  IF exists(fs, final)
  THEN free_path(fs, dest, with_name(dest, counter), counter + 1)
  ELSE final

\* safe_move that moves the file and returns nothing
safe_move_returns_none(st, src, dest, dry_run) ==
  LET ds == mkdir(st.dirs, dest.dir)
  IN IF dry_run
     THEN [files |-> st.files, dirs |-> ds,
           log |-> Append(st.log, Line("DRY", src, dest)), final |-> NoPath]
     ELSE LET final == free_path(st.files, dest, dest, 1)
          IN [files |-> shutil_move(st.files, src, final), dirs |-> ds,
              log |-> Append(st.log, Line("Moved", src, final)), final |-> NoPath]

\* st is the file system and the log; the result adds the returned path
\* (NoPath stands for None)
safe_move(st, src, dest, dry_run) ==
  LET ds == mkdir(st.dirs, dest.dir)
  IN IF dry_run
     THEN [files |-> st.files, dirs |-> ds,
           log |-> Append(st.log, Line("DRY", src, dest)), final |-> NoPath]
     ELSE LET final == free_path(st.files, dest, dest, 1)
          IN [files |-> shutil_move(st.files, src, final), dirs |-> ds,
              log |-> Append(st.log, Line("Moved", src, final)), final |-> final]

\* ---------------------------------------------------------- run_organize
\* an entry of source.iterdir(): a file path, or a subdirectory of the
\* source written as a path with no name
is_dir(item) == item.name = NoName

\* a listing that descends into the folders of the source
SourceFiles_recursive(fs) == {p \in DOMAIN fs : p.dir.root = "source"}

SourceFiles(fs) == {p \in DOMAIN fs : p.dir = SourceDir}

SourceSubdirs(ds) == {d \in ds : d.root = "source" /\ d.folder # "" /\ d.sub = ""}

RECURSIVE SetToSeq(_)
SetToSeq(S) ==
  IF S = {} THEN <<>>
  ELSE LET x == CHOOSE y \in S : TRUE IN <<x>> \o SetToSeq(S \ {x})

Perms(S) ==
  {s \in [1..Cardinality(S) -> S] : \A i, j \in 1..Cardinality(S) : s[i] = s[j] => i = j}

\* The orders in which iterdir() may list the source.  Subdirectories are
\* skipped without any effect, so they are listed first, in one order; the
\* files come in every order.
Listings(fs, ds) ==
  {SetToSeq({File(d, NoName) : d \in SourceSubdirs(ds)}) \o s : s \in Perms(SourceFiles(fs))}

\* a threshold that also filters the file of exactly the minimum size
too_small_or_equal(size, min_size_kb) == size <= min_size_kb * 1024

\* line 103: item.stat().st_size < min_size_kb * 1024
too_small(size, min_size_kb) == size < min_size_kb * 1024

\* the body of `for item in source.iterdir()`, st = files, dirs, moves, log
RECURSIVE organize_loop(_, _, _, _, _, _)
organize_loop(items, st, dest_parent, dry_run, by_date, min_size_kb) ==
  IF items = <<>> THEN st
  ELSE
    LET item == Head(items)
        rest == Tail(items)
    IN IF is_dir(item)
       THEN organize_loop(rest, st, dest_parent, dry_run, by_date, min_size_kb)
       ELSE IF too_small(st.files[item].size, min_size_kb)
       THEN organize_loop(rest, st, dest_parent, dry_run, by_date, min_size_kb)
       ELSE
         LET category == which_category(item.name.ext)
             folder_name == IF category # "" THEN category ELSE "Other"
             cat_dir == Join(dest_parent, folder_name)
             target_parent == IF by_date THEN Join(cat_dir, st.files[item].mtime)
                              ELSE cat_dir
             target == File(target_parent, item.name)
             r == safe_move([files |-> st.files,
                             dirs |-> mkdir(st.dirs, target_parent),
                             log |-> st.log], item, target, dry_run)
             rec == IF r.final # NoPath
                    THEN MoveRecord(item, r.final, FALSE)
                    ELSE MoveRecord(item, target, TRUE)
         IN organize_loop(rest,
                          [files |-> r.files, dirs |-> r.dirs, log |-> r.log,
                           moves |-> Append(st.moves, rec)],
                          dest_parent, dry_run, by_date, min_size_kb)

\* a run without moves leaves the history as it is
append_run_skip_empty(fs, history) ==
  IF history.moves = <<>>
  THEN (IF exists(fs, history_path) /\ fs[history_path].json.shape = "list"
        THEN fs[history_path].json
        ELSE [shape |-> "list", runs |-> <<>>])
  ELSE [shape |-> "list",
        runs |-> (IF exists(fs, history_path) /\ fs[history_path].json.shape \in {"list", "dict"}
                  THEN fs[history_path].json.runs ELSE <<>>) \o <<history>>]

\* lines 130-141: the list written to the ledger by a live run
append_run(fs, history) ==
  IF exists(fs, history_path)
  THEN LET o == fs[history_path].json
       IN IF o.shape = "list" THEN JsonList(Append(o.runs, history))
          ELSE IF o.shape = "dict" THEN JsonList(<<o.runs[1], history>>)
          ELSE JsonList(<<history>>)
  ELSE JsonList(<<history>>)

\* the command line: --undo, --dry-run, --min-size-kb
Args(cmd, dry_run, min_size_kb) ==
  [cmd |-> cmd, dry_run |-> dry_run, min_size_kb |-> min_size_kb]

NoArgs == Args("", FALSE, 0)

\* source.is_dir(): false of a source that is missing or is a regular file
source_is_dir(ds) == SourceDir \in ds

\* dest_arg = NoDir stands for dest_parent = None
run_organize(dest_arg, dry_run, by_date, min_size_kb, listing) ==
  LET dest_parent == IF dest_arg # NoDir THEN dest_arg ELSE SourceDir
      st == organize_loop(listing,
                          [files |-> files, dirs |-> dirs, moves |-> <<>>, log |-> <<>>],
                          dest_parent, dry_run, by_date, min_size_kb)
  IN /\ dry_run \/ now <= MaxRuns
     /\ argv' = Args("organize", dry_run, min_size_kb)
     /\ UNCHANGED <<nextId, opt_dest, opt_by_date>>
     /\ IF ~source_is_dir(dirs)
        THEN \* lines 88-90: sys.exit(1)
             /\ log' = <<Line("NotDir", NoPath, NoPath)>>
             /\ exit_code' = 1
             /\ moves' = <<>>
             /\ UNCHANGED <<files, dirs, now>>
        ELSE /\ moves' = st.moves
             /\ dirs' = st.dirs
             /\ exit_code' = 0
             /\ IF dry_run
                THEN /\ files' = st.files
                     /\ now' = now
                     /\ log' = Append(st.log, Line("DryDone", NoPath, NoPath))
                ELSE /\ files' = write_file(st.files, history_path,
                                            JsonFile(append_run(st.files,
                                                                RunRecord(now, st.moves))))
                     /\ now' = now + 1
                     /\ log' = Append(st.log, Line("Saved", history_path, NoPath))

\* -------------------------------------------------------------- run_undo
\* the moves replayed in the recorded order
reversed_forward(s) == s

RECURSIVE reversed(_)
reversed(s) == IF s = <<>> THEN <<>> ELSE Append(reversed(Tail(s)), Head(s))

\* the body of `for m in reversed(moves)`, st = files, dirs, log
RECURSIVE undo_loop(_, _)
undo_loop(ms, st) ==
  IF ms = <<>> THEN st
  ELSE
    LET m == Head(ms)
        frm == m.to
        to == m.from
    IN IF exists(st.files, frm)
       THEN undo_loop(Tail(ms),
                      [files |-> shutil_move(st.files, frm, to),
                       dirs |-> mkdir(st.dirs, to.dir),
                       log |-> Append(st.log, Line("Restored", frm, to))])
       ELSE undo_loop(Tail(ms),
                      [st EXCEPT !.log = Append(st.log, Line("NotFound", frm, NoPath))])

\* a missing history file taken for an empty history and written back
undo_missing_writes(fs, ds) ==
  [files |-> write_file(fs, history_path,
                        [id |-> 0, size |-> 2, mtime |-> "2024-03",
                         json |-> [shape |-> "list", runs |-> <<>>]]),
   dirs |-> ds, log |-> <<Line("UndoComplete", NoPath, NoPath)>>]

\* lines 149-151: no history file
undo_missing(fs, ds) ==
  [files |-> fs, dirs |-> ds, log |-> <<Line("NoHistory", NoPath, NoPath)>>]

\* lines 157-172: pop the last run, restore its moves, write the ledger back
undo_last(fs, ds, data) ==
  LET last == data.runs[Len(data.runs)]
      popped == SubSeq(data.runs, 1, Len(data.runs) - 1)
      st == undo_loop(reversed(last.moves), [files |-> fs, dirs |-> ds, log |-> <<>>])
  IN [files |-> write_file(st.files, history_path, JsonFile(JsonList(popped))),
      dirs |-> st.dirs,
      log |-> Append(st.log, Line("UndoComplete", NoPath, NoPath))]

undo_result(fs, ds) ==
  IF ~exists(fs, history_path) THEN undo_missing(fs, ds)
  ELSE
    LET data == fs[history_path].json
    IN IF data.shape = "bad"
       THEN \* json.loads raises: the invocation dies with a traceback
            [files |-> fs, dirs |-> ds, log |-> <<Line("Traceback", NoPath, NoPath)>>]
       ELSE IF data.shape # "list" \/ data.runs = <<>>
       THEN [files |-> fs, dirs |-> ds, log |-> <<Line("Corrupt", NoPath, NoPath)>>]
       ELSE undo_last(fs, ds, data)

run_undo ==
  LET r == undo_result(files, dirs)
  IN /\ files' = r.files
     /\ dirs' = r.dirs
     /\ log' = r.log
     /\ moves' = <<>>
     /\ argv' = Args("undo", FALSE, 0)
     \* an uncaught exception ends the interpreter with status 1
     /\ exit_code' = IF Last(r.log).ev = "Traceback" THEN 1 ELSE 0
     /\ UNCHANGED <<now, nextId, opt_dest, opt_by_date>>

\* ----------------------------------------------------------- environment
\* the files the user creates: a.txt of exactly 1 KB and a_1.txt, one byte
\* smaller
Arrivals == {<<Name("a", <<>>, ".txt"), 1024>>, <<Name("a", <<1>>, ".txt"), 1023>>}

\* the options of the model: organize in place, or into the other root with
\* date buckets
Options == {<<NoDir, FALSE>>, <<AltDir, TRUE>>}

MinSizes == {0, 1}

\* the user drops a new file into the source directory
NewFile(name, size) ==
  /\ nextId <= MaxFiles
  /\ source_is_dir(dirs)
  /\ ~exists(files, File(SourceDir, name))
  /\ files' = write_file(files, File(SourceDir, name), DataFile(nextId, size))
  /\ nextId' = nextId + 1
  /\ moves' = <<>>
  /\ log' = <<>>
  /\ argv' = NoArgs
  /\ exit_code' = 0
  /\ UNCHANGED <<dirs, now, opt_dest, opt_by_date>>

\* the destinations recorded by the last run record of the ledger
LastRunDests(fs) ==
  IF exists(fs, history_path) /\ fs[history_path].json.runs # <<>>
  THEN LET last == fs[history_path].json.runs[Len(fs[history_path].json.runs)]
       IN {last.moves[i].to : i \in 1..Len(last.moves)}
  ELSE {}

\* the user deletes a file that the last recorded run has organized
DeleteFile(p) ==
  /\ p \in DOMAIN files
  /\ p \in LastRunDests(files)
  /\ files' = remove_file(files, p)
  /\ moves' = <<>>
  /\ log' = <<>>
  /\ argv' = NoArgs
  /\ exit_code' = 0
  /\ UNCHANGED <<dirs, now, nextId, opt_dest, opt_by_date>>

\* ------------------------------------------------------------------ Init
EmptyFs == [p \in {} |-> DataFile(0, 0)]

LegacyMove == MoveRecord(File(SourceDir, Name("a", <<>>, ".txt")),
                         File(Dir("source", "Documents", ""), Name("a", <<>>, ".txt")),
                         FALSE)

\* a source organized once by a version that wrote one run record
LegacyFs ==
  write_file(write_file(EmptyFs, LegacyMove.to, DataFile(0, 1024)),
             history_path, JsonFile(JsonDict(RunRecord(0, <<LegacyMove>>))))

CorruptFs == write_file(EmptyFs, history_path, JsonFile(BadJson))

\* the source directories of the model, and a source path that is no
\* directory
Presets ==
  {[files |-> fs, dirs |-> {SourceDir, AltDir} \cup {p.dir : p \in DOMAIN fs}] :
     fs \in {EmptyFs, LegacyFs, CorruptFs}}
  \cup {[files |-> EmptyFs, dirs |-> {AltDir}]}

\* the starting points of the model: a fresh source with either option, the
\* legacy ledger organized in place, the unreadable ledger with the other root
Starts ==
  {s \in Presets \X Options :
     \/ s[1].files = EmptyFs
     \/ s[1].files = LegacyFs /\ s[2][1] = NoDir
     \/ s[1].files = CorruptFs /\ s[2][1] = AltDir}

Init ==
  /\ \E s \in Starts :
       /\ files = s[1].files
       /\ dirs = s[1].dirs
       /\ opt_dest = s[2][1]
       /\ opt_by_date = s[2][2]
  /\ argv = NoArgs
  /\ exit_code = 0
  /\ now = 1
  /\ nextId = 1
  /\ moves = <<>>
  /\ log = <<>>

Organize ==
  \E dry_run \in BOOLEAN, min_size_kb \in MinSizes :
    \E listing \in Listings(files, dirs) :
      run_organize(opt_dest, dry_run, opt_by_date, min_size_kb, listing)

Arrive == \E a \in Arrivals : NewFile(a[1], a[2])

Delete == \E p \in DOMAIN files : DeleteFile(p)

Next == Organize \/ run_undo \/ Arrive \/ Delete

Spec == Init /\ [][Next]_vars

TypeOK ==
  /\ now \in 1..(MaxRuns + 1)
  /\ nextId \in 1..(MaxFiles + 1)
  /\ \A p \in DOMAIN files : p.dir \in dirs

\* ---------------------------------------------------------------- claims

\* the run records of the ledger of a file system, none without a ledger
LedgerRuns(fs) == IF exists(fs, history_path) THEN fs[history_path].json.runs ELSE <<>>

\* the most recent invocation was a live run_organize, a dry run, a run_undo
LiveRunDone(lg) == lg # <<>> /\ Last(lg).ev = "Saved"

DryRunDone(lg) == lg # <<>> /\ Last(lg).ev = "DryDone"

UndoDone(lg) ==
  lg # <<>> /\ Last(lg).ev \in {"NoHistory", "Traceback", "Corrupt", "UndoComplete"}

UndoCompleted(lg) == lg # <<>> /\ Last(lg).ev = "UndoComplete"

Timestamps(runs) == {runs[i].timestamp : i \in 1..Len(runs)}

\* no file holds unparseable ledger text
Parseable(fs) == \A p \in DOMAIN fs : fs[p].json.shape # "bad"

\* C1: a live run followed immediately by run_undo leaves every file the run
\* moved back at its source path, and the ledger without the run's record
\* (stated for the sources whose ledger text parses).
C1_RoundTrip ==
  [][(LiveRunDone(log) /\ UndoDone(log') /\ Parseable(files))
       => /\ \A i \in 1..Len(moves) :
               /\ exists(files', moves[i].from)
               /\ files'[moves[i].from] = files[moves[i].to]
          /\ (now - 1) \notin Timestamps(LedgerRuns(files'))]_vars

\* C2: two consecutive live runs leave their two run records at the end of
\* the ledger, oldest first; an undo then pops only the second, keeps the
\* first record and leaves every file of the first run at its dest_path.
C2_TwoRunsOneUndo ==
  [][/\ (LiveRunDone(log) /\ LiveRunDone(log'))
          => LET runs == LedgerRuns(files')
             IN /\ Len(runs) >= 2
                /\ runs[Len(runs) - 1].timestamp = now - 1
                /\ runs[Len(runs)].timestamp = now
     /\ (LiveRunDone(log) /\ Len(LedgerRuns(files)) >= 2 /\ UndoDone(log'))
          => LET runs == LedgerRuns(files)
                 first == runs[Len(runs) - 1]
             IN /\ LedgerRuns(files') = Front(runs)
                /\ \A i \in 1..Len(first.moves) :
                     exists(files, first.moves[i].to)
                       => /\ exists(files', first.moves[i].to)
                          /\ files'[first.moves[i].to] = files[first.moves[i].to]]_vars

\* C3: a live run appends exactly one run record to the ledger that existed
\* before it (a legacy single record counting as a one-element sequence) and
\* keeps every earlier record, in order.
C3_LedgerAppendOnly ==
  [][(LiveRunDone(log') /\ (exists(files, history_path) => files[history_path].json.shape # "bad"))
       => LET before == LedgerRuns(files)
              after == LedgerRuns(files')
          IN /\ Len(after) = Len(before) + 1
             /\ Front(after) = before
             /\ Last(after).timestamp = now]_vars

\* C4: a dry run changes no file and creates no directory.
C4_DryRunNoChange ==
  [][DryRunDone(log') => (files' = files /\ dirs' = dirs)]_vars

\* C5: run_organize, live or dry, never moves the ledger file and records no
\* move of it.
C5_LedgerSkipped ==
  [][((LiveRunDone(log') \/ DryRunDone(log')) /\ exists(files, history_path))
       => /\ \A i \in 1..Len(moves') : moves'[i].from # history_path
          /\ \A i \in 1..Len(log') :
               log'[i].ev \in {"Moved", "DRY"} => log'[i].a # history_path]_vars

\* the files in place when the i-th move of a live run is made: those of
\* before the run and the destinations of the earlier moves of the run
Occupied(fs, ms, i) == DOMAIN fs \cup {ms[k].to : k \in 1..(i - 1)}

C7_LivePostcondition ==
  LiveRunDone(log)
    => \A i \in 1..Len(moves) :
         exists(files, moves[i].to) /\ ~exists(files, moves[i].from)

\* C8: run_undo attempts the restorations of the popped run in the reverse
\* of the recorded order, and the ledger it leaves is the one written after
\* the last attempt: the earlier records, whatever was restored.
C8_ReverseOrder ==
  [][UndoCompleted(log')
       => LET runs == LedgerRuns(files)
              ms == Last(runs).moves
              n == Len(ms)
          IN /\ Len(log') = n + 1
             /\ \A k \in 1..n :
                  /\ log'[k].ev \in {"Restored", "NotFound"}
                  /\ log'[k].a = ms[n + 1 - k].to
             /\ \A i, j \in 1..n :
                  i < j => \E a, b \in 1..n :
                             /\ a < b
                             /\ log'[a].a = ms[j].to
                             /\ log'[b].a = ms[i].to
             /\ LedgerRuns(files') = Front(runs)
             /\ files'[history_path].json.shape = "list"]_vars

\* an undo has attempted at least two restorations
C8_Witness == UndoCompleted(log) /\ Len(log) >= 3

\* C9: in a run_undo that misses the file of some record, every record whose
\* dest_path file exists is restored to its source_path, the missing ones
\* are skipped and the ledger is written without the popped record (stated
\* for the sources whose ledger text parses).
C9_MissNonFatal ==
  [][(UndoDone(log') /\ Len(LedgerRuns(files)) >= 1 /\ Parseable(files)
        /\ files[history_path].json.shape = "list"
        /\ \E i \in 1..Len(Last(LedgerRuns(files)).moves) :
             ~exists(files, Last(LedgerRuns(files)).moves[i].to))
       => LET runs == LedgerRuns(files)
              ms == Last(runs).moves
          IN /\ \A i \in 1..Len(ms) :
                  exists(files, ms[i].to)
                    => /\ ~exists(files', ms[i].to)
                       /\ exists(files', ms[i].from)
                       /\ files'[ms[i].from] = files[ms[i].to]
             /\ LedgerRuns(files') = Front(runs)]_vars

\* C10: run_undo without a ledger file reports the missing history and
\* changes no file and no directory.
C10_UndoNoHistory ==
  [][(UndoDone(log') /\ ~exists(files, history_path))
       => /\ log' = <<Line("NoHistory", NoPath, NoPath)>>
          /\ files' = files
          /\ dirs' = dirs]_vars

\* run_undo has reported the missing history of a source that holds files
C10_Witness ==
  /\ log = <<Line("NoHistory", NoPath, NoPath)>>
  /\ ~exists(files, history_path)
  /\ DOMAIN files # {}

\* C11: run_undo on a ledger file whose content is not a non-empty list of
\* run records (unparseable text, an empty list, one legacy record) reports
\* the corrupt-or-empty history, moves no file and leaves the ledger as it is.
C11_CorruptReported ==
  [][(UndoDone(log') /\ exists(files, history_path)
        /\ ~(files[history_path].json.shape = "list"
               /\ files[history_path].json.runs # <<>>))
       => /\ log' = <<Line("Corrupt", NoPath, NoPath)>>
          /\ files' = files
          /\ dirs' = dirs]_vars

OrganizeDone(lg) == LiveRunDone(lg) \/ DryRunDone(lg)

Recorded(ms, p) == \E i \in 1..Len(ms) : ms[i].from = p

\* C12: a run with threshold min_size_kb records a regular file of the
\* source directory if and only if its size is at least min_size_kb * 1024
\* bytes; a live run moves the recorded files, and every file below the
\* threshold stays at its path.
C12_MinSizeFilter ==
  [][OrganizeDone(log')
       => /\ \A p \in DOMAIN files :
               p.dir = SourceDir
                 => (Recorded(moves', p) <=> files[p].size >= argv'.min_size_kb * 1024)
          /\ \A i \in 1..Len(moves') :
               /\ moves'[i].from \in DOMAIN files
               /\ moves'[i].from.dir = SourceDir
               /\ LiveRunDone(log')
                    => /\ exists(files', moves'[i].to)
                       /\ files'[moves'[i].to] = files[moves'[i].from]
          /\ \A p \in DOMAIN files :
               (p.dir = SourceDir /\ files[p].size < argv'.min_size_kb * 1024)
                 => /\ exists(files', p)
                    /\ p # history_path => files'[p] = files[p]]_vars

\* a live run with a threshold of 1 KB has moved a file of exactly 1024
\* bytes and left a smaller file, the ledger, in the source
C12_Witness ==
  /\ LiveRunDone(log)
  /\ argv.min_size_kb = 1
  /\ \E i \in 1..Len(moves) : files[moves[i].to].size = 1024
  /\ Len(LedgerRuns(files)) >= 2

\* C13: an invocation on a source that is no directory exits with a
\* non-zero status and changes nothing; an invocation on a source directory
\* exits with status zero.
C13_FatalConfig ==
  [][(argv'.cmd # "" /\ log' # <<>>)
       => IF ~source_is_dir(dirs)
          THEN exit_code' # 0 /\ files' = files /\ dirs' = dirs
          ELSE exit_code' = 0]_vars

\* C14: run_undo destroys no file: every file that is not a ledger and is
\* present before a run_undo is present, with its content, after it.
C14_UndoKeepsFiles ==
  [][UndoDone(log')
       => \A p \in DOMAIN files :
            files[p].json = NotJson
              => \E q \in DOMAIN files' : files'[q] = files[p]]_vars

\* C15: a live run moves only files that are direct children of the source:
\* a file anywhere else (in a category folder, the fallback folder or a date
\* folder) keeps its path and content and is named by no move record.
C15_OnlyDirectChildren ==
  [][LiveRunDone(log')
       => /\ \A p \in DOMAIN files :
               p.dir # SourceDir
                 => /\ exists(files', p)
                    /\ files'[p] = files[p]
                    /\ ~Recorded(moves', p)
          /\ \A i \in 1..Len(moves') : moves'[i].from.dir = SourceDir]_vars

\* a live run has left in place a file that an earlier run had organized
\* into a folder of the source
C15_Witness ==
  /\ LiveRunDone(log)
  /\ \E p \in DOMAIN files :
       /\ p.dir.root = "source"
       /\ p.dir.folder # ""
       /\ files[p].json = NotJson
       /\ \A i \in 1..Len(moves) : moves[i].to # p

\* C16: a live run that moves nothing still appends a run record without
\* moves; the next run_undo pops exactly that record and restores no file.
C16_EmptyRun ==
  [][/\ (LiveRunDone(log') /\ moves' = <<>>)
          => /\ LedgerRuns(files') # <<>>
             /\ Last(LedgerRuns(files')) = [timestamp |-> now, moves |-> <<>>]
             /\ (exists(files, history_path) /\ files[history_path].json.shape = "list")
                  => Front(LedgerRuns(files')) = LedgerRuns(files)
     /\ (UndoDone(log') /\ exists(files, history_path)
           /\ files[history_path].json.shape = "list"
           /\ LedgerRuns(files) # <<>>
           /\ Last(LedgerRuns(files)).moves = <<>>)
          => /\ log' = <<Line("UndoComplete", NoPath, NoPath)>>
             /\ LedgerRuns(files') = Front(LedgerRuns(files))
             /\ DOMAIN files' = DOMAIN files
             /\ \A p \in DOMAIN files : p # history_path => files'[p] = files[p]]_vars

\* run_undo has popped a record without moves and left in the ledger an
\* earlier run that had moved files
C16_Witness ==
  /\ log = <<Line("UndoComplete", NoPath, NoPath)>>
  /\ \E i \in 1..Len(LedgerRuns(files)) : LedgerRuns(files)[i].moves # <<>>

\* C17: no move record of a ledger file carries the dry_run flag, and the
\* records of a live run carry the path the file is at.
C17_NoDryRunInLedger ==
  /\ \A p \in DOMAIN files :
       \A r \in 1..Len(files[p].json.runs) :
         \A i \in 1..Len(files[p].json.runs[r].moves) :
           ~files[p].json.runs[r].moves[i].dry_run
  /\ LiveRunDone(log)
       => \A i \in 1..Len(moves) : ~moves[i].dry_run /\ exists(files, moves[i].to)

\* a dry run has produced flagged records next to a ledger that records the
\* moves of a live run
C17_Witness ==
  /\ DryRunDone(log)
  /\ \E i \in 1..Len(moves) : moves[i].dry_run
  /\ \E r \in 1..Len(LedgerRuns(files)) : LedgerRuns(files)[r].moves # <<>>

====
